---- MODULE Spec2Model ----
(***************************************************************************)
(* Model of src/main.py: the converter of a text plus Telegram message     *)
(* entities (ranges in UTF-16 code units) into Telegram HTML.              *)
(*                                                                         *)
(* A text is a sequence of characters, each character a one-character      *)
(* token; a tag or an escaped character is a sequence of tokens, and the   *)
(* output list `out` is the sequence of the strings the code appends.      *)
(***************************************************************************)
EXTENDS Integers, Sequences, FiniteSets, TLC

VARIABLES
    text,        \* the text handed to the converter
    entities,    \* the annotation list handed to the converter
    pc,          \* position in to_telegram_html / the offset translator
    spans,       \* the list returned by build_raw_spans
    by_id,       \* span id -> span, after merge_mergeable_spans
    starts,      \* position -> sorted start events
    ends,        \* position -> sorted end events
    i,           \* the walk's position
    open_stack,  \* stack of span ids, bottom first
    out,         \* the strings appended to the output
    hist,        \* history: for each element of out, what emitted it
    unit_pos,    \* argument of the offset translator (translator runs)
    py_index     \* result of the offset translator (translator runs)

vars == <<text, entities, pc, spans, by_id, starts, ends, i, open_stack,
          out, hist, unit_pos, py_index>>

(***************************************************************************)
(* Bounds of the model.                                                    *)
(***************************************************************************)
MaxLen == 2        \* longest text of Spec
MaxEnts == 1       \* longest annotation list of Spec
MaxOff == 1        \* largest annotation offset of Spec
MaxELen == 2       \* largest annotation length of Spec
MaxKindLen == 2    \* longest text of SpecKinds
MaxKindEnts == 2   \* longest annotation list of SpecKinds
MaxKindOff == 1    \* largest annotation offset of SpecKinds
MaxKindELen == 2   \* largest annotation length of SpecKinds
MaxWalkLen == 5    \* longest text of SpecWalk
MaxMergeLen == 3   \* longest text of SpecMerge
MaxTrLen == 4      \* longest text of SpecTr
MaxUnitPos == 9    \* largest unit position of SpecTr

(***************************************************************************)
(* Characters.  ASTRAL stands for one character above the BMP (U+1F600).   *)
(***************************************************************************)
ASTRAL == "U+1F600"
Alphabet == {"a", " ", "<", ASTRAL}
None == <<>>

ord(c) ==
    CASE c = "a" -> 97
      [] c = " " -> 32
      [] c = "<" -> 60
      [] c = ">" -> 62
      [] c = "&" -> 38
      [] c = "@" -> 64
      [] c = ASTRAL -> 128512
      [] OTHER -> 120

\* str.isspace() / the characters str.strip() and str.split() remove
IsSpaceChar(c) == c \in {" ", "\n", "\t"}

\* a variant that escapes nothing
html_escape_char_raw(c) == c

\* html.escape, one character
html_escape_char(c) ==
    CASE c = "&" -> "&amp;"
      [] c = "<" -> "&lt;"
      [] c = ">" -> "&gt;"
      [] c = "\"" -> "&quot;"
      [] c = "'" -> "&#x27;"
      [] OTHER -> c

\* html.escape of a string
html_escape(s) == [k \in 1..Len(s) |-> html_escape_char(s[k])]

(***************************************************************************)
(* utf16_units_to_py_index                                                 *)
(***************************************************************************)
BMP_MAX == 65535

\* the UTF-16 length of the first k characters of s
UnitLen(s, k) ==
    2 * Cardinality({j \in 1..k : ord(s[j]) > BMP_MAX})
        + Cardinality({j \in 1..k : ord(s[j]) <= BMP_MAX})

\* a variant of the scan that goes on while u <= unit_pos
RECURSIVE ScanUnitsOffByOne(_, _, _, _)
ScanUnitsOffByOne(s, upos, u, k) ==
    IF k < Len(s) /\ u <= upos
    THEN ScanUnitsOffByOne(s, upos, u + (IF ord(s[k + 1]) > BMP_MAX THEN 2 ELSE 1), k + 1)
    ELSE k

\* a variant of the scan that stops before a character it cannot consume whole
RECURSIVE ScanUnitsRoundDown(_, _, _, _)
ScanUnitsRoundDown(s, upos, u, k) ==
    IF k < Len(s) /\ u + (IF ord(s[k + 1]) > BMP_MAX THEN 2 ELSE 1) <= upos
    THEN ScanUnitsRoundDown(s, upos, u + (IF ord(s[k + 1]) > BMP_MAX THEN 2 ELSE 1), k + 1)
    ELSE k

\* the while loop of lines 39-42: u units consumed, k characters consumed
RECURSIVE ScanUnits(_, _, _, _)
ScanUnits(s, upos, u, k) ==
    IF k < Len(s) /\ u < upos
    THEN ScanUnits(s, upos, u + (IF ord(s[k + 1]) > BMP_MAX THEN 2 ELSE 1), k + 1)
    ELSE k

utf16_units_to_py_index(s, upos) ==
    IF upos <= 0 THEN 0 ELSE ScanUnits(s, upos, 0, 0)

(***************************************************************************)
(* Tag tables                                                              *)
(***************************************************************************)
DEFAULT_PRIORITY == 15
MERGEABLE == {"bold", "italic", "underline", "strikethrough"}

TAG_PRIORITY(etype) ==
    CASE etype = "blockquote" -> -10
      [] etype \in {"text_link", "text_mention", "url", "email", "mention"} -> 0
      [] etype = "bold" -> 10
      [] etype = "italic" -> 11
      [] etype = "underline" -> 12
      [] etype = "strikethrough" -> 13
      [] etype = "spoiler" -> 14
      [] etype = "code" -> 20
      [] etype = "pre" -> 21
      [] OTHER -> DEFAULT_PRIORITY

tag_priority(etype) == TAG_PRIORITY(etype)

\* A tag is the sequence of the pieces the f-string joins; None is <<>>.
basic_tags_for_type(etype, href, user_id) ==
    CASE etype = "bold" -> << <<"<b>">>, <<"</b>">> >>
      [] etype = "italic" -> << <<"<i>">>, <<"</i>">> >>
      [] etype = "underline" -> << <<"<u>">>, <<"</u>">> >>
      [] etype = "strikethrough" -> << <<"<s>">>, <<"</s>">> >>
      [] etype = "spoiler" -> << <<"<span class=\"tg-spoiler\">">>, <<"</span>">> >>
      [] etype = "code" -> << <<"<code>">>, <<"</code>">> >>
      [] etype = "pre" -> << <<"<pre>">>, <<"</pre>">> >>
      [] etype = "text_link" /\ href # None ->
            << <<"<a href=\"">> \o html_escape(href) \o <<"\">">>, <<"</a>">> >>
      [] etype = "text_mention" /\ user_id # 0 ->
            << <<"<a href=\"tg://user?id=", ToString(user_id), "\">">>, <<"</a>">> >>
      [] etype = "url" /\ href # None ->
            << <<"<a href=\"">> \o html_escape(href) \o <<"\">">>, <<"</a>">> >>
      [] etype = "email" /\ href # None ->
            << <<"<a href=\"mailto:">> \o html_escape(href) \o <<"\">">>, <<"</a>">> >>
      [] etype = "mention" /\ href # None ->
            << <<"<a href=\"https://t.me/">> \o html_escape(href) \o <<"\">">>, <<"</a>">> >>
      [] etype = "blockquote" -> << <<"<blockquote>">>, <<"</blockquote>">> >>
      [] OTHER -> <<None, None>>

(***************************************************************************)
(* build_raw_spans                                                         *)
(***************************************************************************)
\* text[start:end]
Slice(s, start, end) == SubSeq(s, start + 1, end)

\* "".join(s.split())
JoinSplit(s) == SelectSeq(s, LAMBDA c : ~IsSpaceChar(c))

\* s.strip()
RECURSIVE LStrip(_)
LStrip(s) == IF s # <<>> /\ IsSpaceChar(Head(s)) THEN LStrip(Tail(s)) ELSE s
RECURSIVE RStrip(_)
RStrip(s) ==
    IF s # <<>> /\ IsSpaceChar(s[Len(s)]) THEN RStrip(SubSeq(s, 1, Len(s) - 1)) ELSE s
Strip(s) == RStrip(LStrip(s))

\* lines 75-76: the translated bounds of annotation e
EntityStart(txt, e) == utf16_units_to_py_index(txt, e.offset)
EntityEnd(txt, e) == utf16_units_to_py_index(txt, e.offset + e.length)

\* a variant of the range check that compares the annotation's own units
RangeDroppedByUnits(txt, e) ==
    \/ EntityStart(txt, e) >= EntityEnd(txt, e)
    \/ e.offset + e.length > UnitLen(txt, Len(txt))

\* line 77: the range check that drops an annotation
RangeDropped(txt, e) ==
    LET start == EntityStart(txt, e)
        end == EntityEnd(txt, e)
    IN  start >= end \/ start < 0 \/ end > Len(txt)

\* lines 81-96: the link target
EntityHref(txt, e) ==
    LET substr == Slice(txt, EntityStart(txt, e), EntityEnd(txt, e))
        username == Strip(substr)
    IN  CASE e.type = "text_link" /\ e.url # None -> e.url
          [] e.type = "text_mention" /\ e.user_id # 0 -> None
          [] e.type = "url" -> JoinSplit(substr)
          [] e.type = "email" -> JoinSplit(substr)
          [] e.type = "mention" ->
                IF username # <<>> /\ Head(username) = "@" THEN Tail(username)
                ELSE username
          [] OTHER -> None

\* lines 86-87: e.user_id is 0 for an annotation without a user
EntityUserId(txt, e) == IF e.type = "text_mention" THEN e.user_id ELSE 0

\* a variant without the whitespace rule
WhitespaceKept(txt, e) == FALSE

\* lines 98-100: whitespace-only ranges of the mergeable kinds are thrown away
WhitespaceDropped(txt, e) ==
    /\ e.type \in MERGEABLE
    /\ Strip(Slice(txt, EntityStart(txt, e), EntityEnd(txt, e))) = <<>>

EntityTags(txt, e) ==
    basic_tags_for_type(e.type, EntityHref(txt, e), EntityUserId(txt, e))

\* lines 77-104: whether annotation e yields a span
EntityKept(txt, e) ==
    /\ ~RangeDropped(txt, e)
    /\ ~WhitespaceDropped(txt, e)
    /\ EntityTags(txt, e)[1] # None

\* lines 106-114: the span of annotation number k (its identity, id(e))
SpanOfEntity(txt, e, k) ==
    [id |-> k, type |-> e.type,
     start |-> EntityStart(txt, e), end |-> EntityEnd(txt, e),
     open |-> EntityTags(txt, e)[1], close |-> EntityTags(txt, e)[2],
     priority |-> tag_priority(e.type)]

build_raw_spans(txt, ents) ==
    LET kept == SelectSeq([k \in 1..Len(ents) |-> k],
                          LAMBDA k : EntityKept(txt, ents[k]))
    IN  [j \in 1..Len(kept) |-> SpanOfEntity(txt, ents[kept[j]], kept[j])]

(***************************************************************************)
(* merge_mergeable_spans                                                   *)
(***************************************************************************)
\* line 121: others is a list, and others.setdefault raises AttributeError
\* for the first span whose type is not mergeable
MergeRaises(sps) == \E k \in 1..Len(sps) : sps[k].type \notin MERGEABLE

\* line 136: arr.sort(key=(start, end)), a stable sort
SortKeyLeq(a, b) == a.start < b.start \/ (a.start = b.start /\ a.end <= b.end)

RECURSIVE InsertStable(_, _)
InsertStable(sorted, x) ==
    IF sorted = <<>> THEN <<x>>
    ELSE IF SortKeyLeq(sorted[Len(sorted)], x) THEN Append(sorted, x)
    ELSE Append(InsertStable(SubSeq(sorted, 1, Len(sorted) - 1), x), sorted[Len(sorted)])

RECURSIVE SortByStartEnd(_)
SortByStartEnd(arr) ==
    IF arr = <<>> THEN <<>>
    ELSE InsertStable(SortByStartEnd(SubSeq(arr, 1, Len(arr) - 1)), arr[Len(arr)])

\* a variant that takes the end of the later span
MaxTakesSecond(a, b) == b

\* line 144: max(cur["end"], nxt["end"])
Max(a, b) == IF a >= b THEN a ELSE b

\* a variant in which every non-empty gap separates
GapBlocksWhenNonEmpty(gap) == gap # <<>>

\* line 140: gap != "" and not gap.isspace()
GapBlocks(gap) == \E k \in 1..Len(gap) : ~IsSpaceChar(gap[k])

\* lines 138-145: the scan over the sorted spans of one kind
RECURSIVE MergeScan(_, _, _, _)
MergeScan(txt, cur, rest, merged) ==
    IF rest = <<>> THEN Append(merged, cur)
    ELSE LET nxt == Head(rest)
             gap == Slice(txt, cur.end, nxt.start)
         IN  IF GapBlocks(gap)
             THEN MergeScan(txt, nxt, Tail(rest), Append(merged, cur))
             ELSE MergeScan(txt, [cur EXCEPT !.end = Max(cur.end, nxt.end)],
                            Tail(rest), merged)

\* lines 133-145 for one kind t
MergeKind(txt, sps, t) ==
    LET arr == SortByStartEnd(SelectSeq(sps, LAMBDA x : x.type = t))
    IN  IF arr = <<>> THEN <<>> ELSE MergeScan(txt, Head(arr), Tail(arr), <<>>)

\* the orders in which `for t in MERGEABLE` may visit the kinds that have
\* spans (a set's iteration order is not fixed; a kind without spans is
\* skipped on line 135)
KindOrders(sps) ==
    LET present == {t \in MERGEABLE : \E k \in 1..Len(sps) : sps[k].type = t}
        n == Cardinality(present)
    IN  {o \in [1..n -> present] : \A a, b \in 1..n : a # b => o[a] # o[b]}

\* merged, after the loop of lines 132-145 has visited the kinds in order
RECURSIVE MergeKinds(_, _, _)
MergeKinds(txt, sps, order) ==
    IF order = <<>> THEN <<>>
    ELSE MergeKind(txt, sps, Head(order)) \o MergeKinds(txt, sps, Tail(order))

\* lines 123-146, when line 121 has not raised; order is the set's iteration
\* order
merge_mergeable_spans(txt, sps, order) ==
    MergeKinds(txt, sps, order) \o SelectSeq(sps, LAMBDA x : x.type \notin MERGEABLE)

(***************************************************************************)
(* to_telegram_html: the event index (lines 156-168)                       *)
(***************************************************************************)
EmptyMap == [x \in {} |-> x]

\* by_id[s["id"]] = s
ById(sps) ==
    [sid \in {sps[k].id : k \in 1..Len(sps)} |->
        LET k == CHOOSE j \in 1..Len(sps) :
                    sps[j].id = sid /\ \A m \in (j + 1)..Len(sps) : sps[m].id # sid
        IN  sps[k]]

\* an event is <<<<key1, key2>>, span_id>>; list.sort() orders tuples
\* lexicographically
EventLess(a, b) ==
    \/ a[1][1] < b[1][1]
    \/ a[1][1] = b[1][1] /\ a[1][2] < b[1][2]
    \/ a[1][1] = b[1][1] /\ a[1][2] = b[1][2] /\ a[2] < b[2]

RECURSIVE SortEvents(_)
SortEvents(S) ==
    IF S = {} THEN <<>>
    ELSE LET m == CHOOSE x \in S : \A y \in S \ {x} : EventLess(x, y)
         IN  <<m>> \o SortEvents(S \ {m})

\* a variant whose start key is (-length, -priority)
StartEventsPriorityDesc(sps, p) ==
    SortEvents({ <<<<-(sps[k].end - sps[k].start), -sps[k].priority>>, sps[k].id>> :
                    k \in {j \in 1..Len(sps) : sps[j].start = p} })

\* line 164: the start events of position p, sorted (line 167)
StartEvents(sps, p) ==
    SortEvents({ <<<<-(sps[k].end - sps[k].start), sps[k].priority>>, sps[k].id>> :
                    k \in {j \in 1..Len(sps) : sps[j].start = p} })

\* line 165: the end events of position p, sorted (line 168)
EndEvents(sps, p) ==
    SortEvents({ <<<<sps[k].end - sps[k].start, -sps[k].priority>>, sps[k].id>> :
                    k \in {j \in 1..Len(sps) : sps[j].end = p} })

(***************************************************************************)
(* to_telegram_html: the walk.  A walk state is [stack, out, hist].        *)
(***************************************************************************)
\* out.append(s); hist records what emitted it and the stack at that moment
Emit(st, s, ev, sid, at) ==
    [st EXCEPT !.out = Append(@, s),
               !.hist = Append(@, [ev |-> ev, sid |-> sid, at |-> at,
                                   stack |-> st.stack])]

Push(st, sid) == [st EXCEPT !.stack = Append(@, sid)]
Pop(st) == [st EXCEPT !.stack = SubSeq(@, 1, Len(@) - 1)]
Top(st) == st.stack[Len(st.stack)]

InStackOf(stack, sid) == \E k \in 1..Len(stack) : stack[k] = sid

\* lines 177-180: pop and close everything above span_id
RECURSIVE PopAbove(_, _, _, _)
PopAbove(ids, span_id, st, reopen) ==
    IF st.stack # <<>> /\ Top(st) # span_id
    THEN LET sid == Top(st)
         IN  PopAbove(ids, span_id, Emit(Pop(st), ids[sid].close, "close", sid, -1),
                      Append(reopen, sid))
    ELSE [st |-> st, reopen |-> reopen]

\* a variant that reopens the popped spans in the order they were popped
RECURSIVE ReopenInPopOrder(_, _, _)
ReopenInPopOrder(ids, st, reopen) ==
    IF reopen = <<>> THEN st
    ELSE LET sid == Head(reopen)
         IN  ReopenInPopOrder(ids, Push(Emit(st, ids[sid].open, "open", sid, -1), sid),
                              Tail(reopen))

\* lines 184-186: reopen the popped spans, last popped first
RECURSIVE Reopen(_, _, _)
Reopen(ids, st, reopen) ==
    IF reopen = <<>> THEN st
    ELSE LET sid == reopen[Len(reopen)]
         IN  Reopen(ids, Push(Emit(st, ids[sid].open, "open", sid, -1), sid),
                    SubSeq(reopen, 1, Len(reopen) - 1))

\* a variant that closes the target where it lies, without closing and
\* reopening what is above it
close_until_in_place(ids, span_id, st) ==
    IF InStackOf(st.stack, span_id)
    THEN [Emit(st, ids[span_id].close, "close", span_id, -1)
            EXCEPT !.stack = SelectSeq(st.stack, LAMBDA x : x # span_id)]
    ELSE st

\* lines 174-186
close_until(ids, span_id, st) ==
    LET above == PopAbove(ids, span_id, st, <<>>)
        st1 == above.st
        st2 == IF st1.stack # <<>> /\ Top(st1) = span_id
               THEN Emit(Pop(st1), ids[span_id].close, "close", span_id, -1)
               ELSE st1
    IN  Reopen(ids, st2, above.reopen)

\* open_stack.index(sid)
IndexOf(stack, sid) == CHOOSE k \in 1..Len(stack) :
                          stack[k] = sid /\ \A j \in 1..(k - 1) : stack[j] # sid

\* sid in open_stack
InStack(stack, sid) == InStackOf(stack, sid)

\* to_close.remove(x)
RemoveFirst(seq, x) ==
    LET k == CHOOSE j \in 1..Len(seq) : seq[j] = x /\ \A m \in 1..(j - 1) : seq[m] # x
    IN  SubSeq(seq, 1, k - 1) \o SubSeq(seq, k + 1, Len(seq))

\* a variant that takes the pending span with the smallest stack index
Shallowest(stack, to_close) ==
    LET cand == {to_close[k] : k \in {j \in 1..Len(to_close) : InStack(stack, to_close[j])}}
    IN  CHOOSE sid \in cand :
            \A other \in cand : IndexOf(stack, sid) <= IndexOf(stack, other)

\* line 197: the pending span with the largest stack index
Deepest(stack, to_close) ==
    LET cand == {to_close[k] : k \in {j \in 1..Len(to_close) : InStack(stack, to_close[j])}}
    IN  CHOOSE sid \in cand :
            \A other \in cand : IndexOf(stack, other) <= IndexOf(stack, sid)

\* lines 192-199
RECURSIVE CloseLoop(_, _, _)
CloseLoop(ids, to_close, st) ==
    IF to_close = <<>> THEN st
    ELSE IF \A k \in 1..Len(to_close) : ~InStack(st.stack, to_close[k]) THEN st
    ELSE LET deepest == Deepest(st.stack, to_close)
         IN  CloseLoop(ids, RemoveFirst(to_close, deepest), close_until(ids, deepest, st))

\* lines 203-205
RECURSIVE OpenLoop(_, _, _)
OpenLoop(ids, evs, st) ==
    IF evs = <<>> THEN st
    ELSE LET sid == Head(evs)[2]
         IN  OpenLoop(ids, Tail(evs), Push(Emit(st, ids[sid].open, "open", sid, -1), sid))

\* lines 211-212
RECURSIVE CloseRest(_, _)
CloseRest(ids, st) ==
    IF st.stack = <<>> THEN st
    ELSE LET sid == Top(st)
         IN  CloseRest(ids, Emit(Pop(st), ids[sid].close, "close", sid, -1))

Sids(evs) == [k \in 1..Len(evs) |-> evs[k][2]]

(***************************************************************************)
(* The steps of to_telegram_html                                           *)
(***************************************************************************)
Walk == [stack |-> open_stack, out |-> out, hist |-> hist]

SetWalk(st) ==
    /\ open_stack' = st.stack
    /\ out' = st.out
    /\ hist' = st.hist

\* lines 149-150
ReturnEmpty ==
    /\ pc = "call"
    /\ text = <<>>
    /\ pc' = "done"
    /\ UNCHANGED <<text, entities, spans, by_id, starts, ends, i, open_stack,
                   out, hist, unit_pos, py_index>>

\* line 153, the inner call
Build ==
    /\ pc = "call"
    /\ text # <<>>
    /\ spans' = build_raw_spans(text, entities)
    /\ pc' = "merge"
    /\ UNCHANGED <<text, entities, by_id, starts, ends, i, open_stack, out, hist,
                   unit_pos, py_index>>

\* line 153, the outer call, when line 121 raises: the exception leaves
\* to_telegram_html
MergeRaise ==
    /\ pc = "merge"
    /\ MergeRaises(spans)
    /\ pc' = "raised"
    /\ UNCHANGED <<text, entities, spans, by_id, starts, ends, i, open_stack,
                   out, hist, unit_pos, py_index>>

\* lines 153-172: merge, then index the spans
Merge ==
    /\ pc = "merge"
    /\ ~MergeRaises(spans)
    /\ \E order \in KindOrders(spans) :
          LET merged == merge_mergeable_spans(text, spans, order)
          IN  /\ by_id' = ById(merged)
              /\ starts' = [p \in 0..Len(text) |-> StartEvents(merged, p)]
              /\ ends' = [p \in 0..Len(text) |-> EndEvents(merged, p)]
    /\ i' = 0
    /\ pc' = "closings"
    /\ UNCHANGED <<text, entities, spans, open_stack, out, hist, unit_pos, py_index>>

\* lines 190-199
Closings ==
    /\ pc = "closings"
    /\ SetWalk(CloseLoop(by_id, Sids(ends[i]), Walk))
    /\ pc' = "openings"
    /\ UNCHANGED <<text, entities, spans, by_id, starts, ends, i, unit_pos, py_index>>

\* lines 202-205
Openings ==
    /\ pc = "openings"
    /\ SetWalk(OpenLoop(by_id, starts[i], Walk))
    /\ pc' = "character"
    /\ UNCHANGED <<text, entities, spans, by_id, starts, ends, i, unit_pos, py_index>>

\* a variant whose walk runs over range(n): it stops after the last character
CharacterShortWalk ==
    /\ pc = "character"
    /\ IF i < Len(text)
       THEN SetWalk(Emit(Walk, <<html_escape_char(text[i + 1])>>, "char", 0, i))
       ELSE UNCHANGED <<open_stack, out, hist>>
    /\ i' = i + 1
    /\ pc' = IF i + 1 < Len(text) THEN "closings" ELSE "final"
    /\ UNCHANGED <<text, entities, spans, by_id, starts, ends, unit_pos, py_index>>

\* lines 207-208 and the loop's increment
Character ==
    /\ pc = "character"
    /\ IF i < Len(text)
       THEN SetWalk(Emit(Walk, <<html_escape_char(text[i + 1])>>, "char", 0, i))
       ELSE UNCHANGED <<open_stack, out, hist>>
    /\ i' = i + 1
    /\ pc' = IF i < Len(text) THEN "closings" ELSE "final"
    /\ UNCHANGED <<text, entities, spans, by_id, starts, ends, unit_pos, py_index>>

\* lines 211-214
Finish ==
    /\ pc = "final"
    /\ SetWalk(CloseRest(by_id, Walk))
    /\ pc' = "done"
    /\ UNCHANGED <<text, entities, spans, by_id, starts, ends, i, unit_pos, py_index>>

\* one call of utf16_units_to_py_index(text, unit_pos)
Translate ==
    /\ pc = "translate"
    /\ py_index' = utf16_units_to_py_index(text, unit_pos)
    /\ pc' = "translated"
    /\ UNCHANGED <<text, entities, spans, by_id, starts, ends, i, open_stack,
                   out, hist, unit_pos>>

(***************************************************************************)
(* Inputs and specifications                                               *)
(***************************************************************************)
Texts(alphabet, maxlen) == UNION {[1..n -> alphabet] : n \in 0..maxlen}
Lists(S, maxlen) == UNION {[1..n -> S] : n \in 0..maxlen}

Entity(t, o, l, url, uid, lang) ==
    [type |-> t, offset |-> o, length |-> l, url |-> url, user_id |-> uid,
     language |-> lang]

SampleUrl == <<"a", "&">>
SampleLanguage == <<"p", "y">>
SampleUserId == 7

Idle ==
    /\ spans = <<>>
    /\ by_id = EmptyMap
    /\ starts = EmptyMap
    /\ ends = EmptyMap
    /\ i = 0
    /\ open_stack = <<>>
    /\ out = <<>>
    /\ hist = <<>>

Next ==
    \/ ReturnEmpty
    \/ Build
    \/ MergeRaise
    \/ Merge
    \/ Closings
    \/ Openings
    \/ Character
    \/ Finish

\* Spec: a call of to_telegram_html on any text over Alphabet and any list of
\* bold, italic and explicit-link annotations
GeneralEntities ==
    {Entity(t, o, l, None, 0, None) :
        t \in {"bold", "italic"}, o \in 0..MaxOff, l \in 1..MaxELen}
    \cup {Entity("text_link", o, l, SampleUrl, 0, None) :
        o \in 0..MaxOff, l \in 1..MaxELen}

Init ==
    /\ text \in Texts(Alphabet, MaxLen)
    /\ entities \in Lists(GeneralEntities, MaxEnts)
    /\ pc = "call"
    /\ Idle
    /\ unit_pos = 0
    /\ py_index = 0

Spec == Init /\ [][Next]_vars

\* SpecKinds: a call of to_telegram_html with annotations of every kind, with
\* and without their extra data
AllKindEntities ==
    {Entity(t, o, l, None, 0, None) :
        t \in {"bold", "italic", "underline", "strikethrough", "spoiler", "code",
               "pre", "text_link", "text_mention", "url", "email", "mention",
               "blockquote", "hashtag"},
        o \in 0..MaxKindOff, l \in 1..MaxKindELen}
    \cup {Entity("text_link", o, l, SampleUrl, 0, None) :
        o \in 0..MaxKindOff, l \in 1..MaxKindELen}
    \cup {Entity("text_mention", o, l, None, SampleUserId, None) :
        o \in 0..MaxKindOff, l \in 1..MaxKindELen}
    \cup {Entity("pre", o, l, None, 0, SampleLanguage) :
        o \in 0..MaxKindOff, l \in 1..MaxKindELen}

InitKinds ==
    /\ text \in Texts(Alphabet, MaxKindLen)
    /\ entities \in Lists(AllKindEntities, MaxKindEnts)
    /\ pc = "call"
    /\ Idle
    /\ unit_pos = 0
    /\ py_index = 0

SpecKinds == InitKinds /\ [][Next]_vars

\* the annotation lists with at most one annotation for each element of a
\* sequence of kinds, every range inside a text of n BMP characters
Ranges(n) == {r \in (0..n) \X (1..n) : r[1] + r[2] <= n}

RECURSIVE SlotLists(_, _)
SlotLists(kinds, n) ==
    IF kinds = <<>> THEN {<<>>}
    ELSE LET rest == SlotLists(Tail(kinds), n)
         IN  rest \cup {<<Entity(Head(kinds), r[1], r[2], None, 0, None)>> \o tl :
                            r \in Ranges(n), tl \in rest}

\* no annotation of the runs below has a kind outside MERGEABLE, so line 121
\* never raises in them
NextMergeable ==
    \/ ReturnEmpty
    \/ Build
    \/ Merge
    \/ Closings
    \/ Openings
    \/ Character
    \/ Finish

\* SpecWalk: a call of to_telegram_html on a text of letters with at most one
\* annotation of each of three mergeable kinds
WalkKinds == <<"bold", "italic", "underline">>

InitWalk ==
    /\ \E n \in 0..MaxWalkLen :
          /\ text = [k \in 1..n |-> "a"]
          /\ entities \in SlotLists(WalkKinds, n)
    /\ pc = "call"
    /\ Idle
    /\ unit_pos = 0
    /\ py_index = 0

SpecWalk == InitWalk /\ [][NextMergeable]_vars

\* SpecMerge: a call of to_telegram_html on a text of letters and spaces with
\* at most three bold annotations
BoldSlots == <<"bold", "bold", "bold">>

InitMerge ==
    /\ text \in Texts({"a", " "}, MaxMergeLen)
    /\ entities \in SlotLists(BoldSlots, Len(text))
    /\ pc = "call"
    /\ Idle
    /\ unit_pos = 0
    /\ py_index = 0

SpecMerge == InitMerge /\ [][NextMergeable]_vars

\* SpecTr: a call of utf16_units_to_py_index
InitTr ==
    /\ text \in Texts(Alphabet, MaxTrLen)
    /\ unit_pos \in -1..MaxUnitPos
    /\ entities = <<>>
    /\ pc = "translate"
    /\ Idle
    /\ py_index = 0

NextTr == Translate

SpecTr == InitTr /\ [][NextTr]_vars

(***************************************************************************)
(* Properties of the offset translator (checked under SpecTr)              *)
(***************************************************************************)
\* the smallest k whose prefix holds at least u units, len(s) when none does
LeastPrefix(s, u) ==
    IF u <= 0 THEN 0
    ELSE IF UnitLen(s, Len(s)) < u THEN Len(s)
    ELSE CHOOSE k \in 0..Len(s) :
            UnitLen(s, k) >= u /\ \A j \in 0..(k - 1) : UnitLen(s, j) < u

IsBmpText(s) == \A k \in 1..Len(s) : ord(s[k]) <= BMP_MAX

\* C5: utf16_units_to_py_index(text, u) is 0 for u <= 0, otherwise the
\* smallest index whose prefix has a UTF-16 length >= u, or len(text) when u
\* exceeds the total length; on a BMP-only text it returns k for 0 <= k <= len.
C5_TranslateIsLeastPrefix ==
    pc = "translated" =>
        /\ py_index = LeastPrefix(text, unit_pos)
        /\ (IsBmpText(text) /\ unit_pos \in 0..Len(text) => py_index = unit_pos)

\* C5 witness: a translation that skipped a two-unit character
C5_Witness ==
    /\ pc = "translated"
    /\ unit_pos \in 1..UnitLen(text, Len(text))
    /\ \E k \in 1..py_index : text[k] = ASTRAL
    /\ py_index < Len(text)

\* unit position u lies between the two units of character number k of s
MidSurrogate(s, u, k) ==
    /\ k \in 1..Len(s)
    /\ ord(s[k]) > BMP_MAX
    /\ UnitLen(s, k - 1) = u - 1

\* C6 as stated: a unit position in the middle of a surrogate pair rounds
\* down to the index of the enclosing character.
C6_MidSurrogateRoundsDown ==
    pc = "translated" =>
        \A k \in 1..Len(text) : MidSurrogate(text, unit_pos, k) => py_index = k - 1

\* C6 amended: a unit position in the middle of a surrogate pair rounds up:
\* the result is the index after the enclosing character.
C6_MidSurrogateRoundsUp ==
    pc = "translated" =>
        \A k \in 1..Len(text) : MidSurrogate(text, unit_pos, k) => py_index = k

\* C6 witness: a translation of a position inside a surrogate pair
C6_Witness ==
    /\ pc = "translated"
    /\ \E k \in 1..Len(text) : MidSurrogate(text, unit_pos, k) /\ k < Len(text)

(***************************************************************************)
(* Properties of the conversion                                            *)
(***************************************************************************)
Rendering == pc \in {"closings", "openings", "character", "final"}
Rendered == pc = "done" /\ text # <<>>
Indexed == Rendering \/ Rendered

PostMergeSpans == {by_id[sid] : sid \in DOMAIN by_id}
Range(seq) == {seq[k] : k \in 1..Len(seq)}

\* the tags of the output replayed on a stack: a close must meet its own
\* span on top
RECURSIVE Replay(_, _)
Replay(h, stack) ==
    IF h = <<>> THEN [ok |-> TRUE, stack |-> stack]
    ELSE LET e == Head(h)
         IN  CASE e.ev = "open" -> Replay(Tail(h), Append(stack, e.sid))
               [] e.ev = "close" ->
                    IF stack # <<>> /\ stack[Len(stack)] = e.sid
                    THEN Replay(Tail(h), SubSeq(stack, 1, Len(stack) - 1))
                    ELSE [ok |-> FALSE, stack |-> stack]
               [] OTHER -> Replay(Tail(h), stack)

Count(ev, sid) == Cardinality({k \in 1..Len(hist) : hist[k].ev = ev /\ hist[k].sid = sid})
CountAll(ev) == Cardinality({k \in 1..Len(hist) : hist[k].ev = ev})

\* every element of out is the string its history entry names
HistoryMatchesOutput ==
    /\ Len(hist) = Len(out)
    /\ \A k \in 1..Len(hist) :
          /\ hist[k].ev = "open" => out[k] = by_id[hist[k].sid].open
          /\ hist[k].ev = "close" => out[k] = by_id[hist[k].sid].close

\* C1: the output is balanced: in every prefix each close tag closes the most
\* recently opened still-unclosed tag, which is a tag of the same span, and
\* the finished output holds as many open tags as close tags.
C1_Balanced ==
    Indexed =>
        /\ HistoryMatchesOutput
        /\ Replay(hist, <<>>).ok
        /\ (Rendered => /\ Replay(hist, <<>>).stack = <<>>
                        /\ CountAll("open") = CountAll("close"))

\* C1 witness: a finished output in which a tag was closed and reopened
C1_Witness ==
    /\ Rendered
    /\ \E sid \in DOMAIN by_id : Count("close", sid) >= 2

\* the spans that cover character index idx
Covering(sps, idx) == {sp.id : sp \in {x \in sps : x.start <= idx /\ idx < x.end}}

\* the spans merge_mergeable_spans is to return: the merged ones, and the
\* spans of the other kinds as build_raw_spans made them
SpansToRender ==
    PostMergeSpans \cup {sp \in Range(spans) : sp.type \notin MERGEABLE}

\* C2: when the conversion of a non-empty text ends, every character index
\* was emitted while the open stack held exactly the spans with
\* start <= index < end.
C2_StackIsCoveringSet ==
    pc \in {"done", "raised"} /\ text # <<>> =>
        \A idx \in 0..(Len(text) - 1) :
            \E k \in 1..Len(hist) :
                /\ hist[k].ev = "char"
                /\ hist[k].at = idx
                /\ Range(hist[k].stack) = Covering(SpansToRender, idx)

\* the same, for the conversions that reach the walk
C2_StackIsCoveringSetWhenRendered ==
    Rendered =>
        \A idx \in 0..(Len(text) - 1) :
            \E k \in 1..Len(hist) :
                /\ hist[k].ev = "char"
                /\ hist[k].at = idx
                /\ Range(hist[k].stack) = Covering(PostMergeSpans, idx)

\* the escaped form of a character of the text
EscapedForm(c) ==
    CASE c = "<" -> "&lt;"
      [] c = ">" -> "&gt;"
      [] c = "&" -> "&amp;"
      [] OTHER -> c

CharPositions == SelectSeq([k \in 1..Len(hist) |-> k], LAMBDA k : hist[k].ev = "char")
OutputWithoutTags == [j \in 1..Len(CharPositions) |-> out[CharPositions[j]]]
EscapedText == [k \in 1..Len(text) |-> <<EscapedForm(text[k])>>]

SeparatedByText(a, b) ==
    /\ a.end < b.start
    /\ \E k \in (a.end + 1)..b.start : ~IsSpaceChar(text[k])

\* C4: after merge_mergeable_spans any two distinct spans of one mergeable
\* kind are disjoint and the text strictly between them holds at least one
\* non-whitespace character.
C4_MergedSpansSeparated ==
    Indexed =>
        \A a, b \in PostMergeSpans :
            a.id # b.id /\ a.type = b.type /\ a.type \in MERGEABLE /\ a.start <= b.start
                => SeparatedByText(a, b)

\* C4 witness: two spans of one kind, apart by whitespace only, came out as
\* one span over both
C4_Witness ==
    /\ Indexed
    /\ Len(spans) = 2
    /\ spans[1].type = spans[2].type
    /\ spans[1].end < spans[2].start
    /\ \E sp \in PostMergeSpans : sp.start = spans[1].start /\ sp.end = spans[2].end

Built == pc # "call" /\ text # <<>>
HasSpan(k) == \E j \in 1..Len(spans) : spans[j].id = k
HasMarkup(k) == \E j \in 1..Len(hist) : hist[j].ev \in {"open", "close"} /\ hist[j].sid = k

\* the annotation's range reaches past the text's UTF-16 length
OutOfRange(e) ==
    \/ e.offset + e.length > UnitLen(text, Len(text))
    \/ e.offset > UnitLen(text, Len(text))

\* the annotation is of a mergeable kind and covers whitespace only
CoversOnlyWhitespace(e) ==
    LET start == LeastPrefix(text, e.offset)
        end == LeastPrefix(text, e.offset + e.length)
    IN  start < end /\ \A j \in (start + 1)..end : IsSpaceChar(text[j])

PreLanguageOpen(lang) ==
    <<"<pre><code class=\"language-">> \o [k \in 1..Len(lang) |-> EscapedForm(lang[k])]
        \o <<"\">">>

\* C8: the span built for a pre annotation with a language tag opens with a
\* <pre> wrapping <code class="language-..."> that carries the escaped
\* language; without a language tag it is the fixed <pre>, </pre> pair.
C8_PreCarriesLanguage ==
    Built =>
        \A j \in 1..Len(spans) :
            spans[j].type = "pre" =>
                LET lang == entities[spans[j].id].language
                IN  IF lang # None
                    THEN spans[j].open = PreLanguageOpen(lang)
                    ELSE spans[j].open = <<"<pre>">> /\ spans[j].close = <<"</pre>">>

\* C9: an annotation of a mergeable kind over whitespace only yields no span
\* and no tag in the output, and a text whose only annotations are such
\* renders as the escaped text; an annotation of another kind over whitespace
\* only still yields its span.
C9_WhitespaceOnlyDropped ==
    Built =>
        /\ \A k \in 1..Len(entities) :
              CoversOnlyWhitespace(entities[k]) =>
                  IF entities[k].type \in MERGEABLE
                  THEN ~HasSpan(k) /\ ~HasMarkup(k)
                  ELSE HasSpan(k)
        /\ (/\ Rendered
            /\ \A k \in 1..Len(entities) :
                  entities[k].type \in MERGEABLE /\ CoversOnlyWhitespace(entities[k]))
              => out = EscapedText

\* C9 witness: a text with letters and a bold annotation over its whitespace
\* was rendered
C9_Witness ==
    /\ Rendered
    /\ \E k \in 1..Len(text) : ~IsSpaceChar(text[k])
    /\ \E k \in 1..Len(entities) :
          entities[k].type = "bold" /\ CoversOnlyWhitespace(entities[k])

\* the spans that opened before S, were open when S opened and end inside S
Conflicts(S) ==
    {T \in PostMergeSpans : T.start < S.start /\ S.start < T.end /\ T.end < S.end}

Laminar ==
    \A S, T \in PostMergeSpans :
        S.end <= T.start \/ T.end <= S.start
            \/ (S.start <= T.start /\ T.end <= S.end)
            \/ (T.start <= S.start /\ S.end <= T.end)

\* C10: in the finished output the open tag and the close tag of a span S are
\* each emitted 1 + k times, k the number of spans T with
\* T.start < S.start < T.end < S.end; with a laminar span set every tag is
\* emitted once.
C10_OnePairPerConflict ==
    Rendered =>
        /\ \A S \in PostMergeSpans :
              /\ Count("open", S.id) = 1 + Cardinality(Conflicts(S))
              /\ Count("close", S.id) = 1 + Cardinality(Conflicts(S))
        /\ (Laminar => \A S \in PostMergeSpans :
                          Count("open", S.id) = 1 /\ Count("close", S.id) = 1)

\* C10 witness: a finished output with a span that two others end inside
C10_Witness ==
    /\ Rendered
    /\ \E S \in PostMergeSpans : Cardinality(Conflicts(S)) = 2

\* the place in the output of the last close tag of span sid
LastClose(sid) ==
    CHOOSE k \in 1..Len(hist) :
        /\ hist[k].ev = "close" /\ hist[k].sid = sid
        /\ \A j \in (k + 1)..Len(hist) : ~(hist[j].ev = "close" /\ hist[j].sid = sid)

\* the end-event sort key (length, -priority) of S is below that of T
EndKeyLess(S, T) ==
    \/ S.end - S.start < T.end - T.start
    \/ S.end - S.start = T.end - T.start /\ -S.priority < -T.priority

\* C11: of two spans that end at the same position, the one with the smaller
\* (length, -priority) key has its final close tag emitted first: the shorter
\* before the longer, and at equal length the higher priority first.
C11_FinalClosesInEndKeyOrder ==
    Rendered =>
        \A S, T \in PostMergeSpans :
            S.end = T.end /\ EndKeyLess(S, T) => LastClose(S.id) < LastClose(T.id)

\* C11 witness: a finished output with three spans ending at one position,
\* two of them of equal length
C11_Witness ==
    /\ Rendered
    /\ \E S, T, U \in PostMergeSpans :
          /\ S.end = T.end /\ T.end = U.end
          /\ S.start = T.start /\ S.priority > T.priority
          /\ U.start < T.start

\* C12: when the walk has processed position len(text) the open stack is
\* empty, so the loop of lines 211-212 emits no close tag; a span that is on
\* the stack after the closing step of position i ends after i, so each
\* opened span was closed by the closing step of its own end.
C12_StackEmptyAfterWalk ==
    /\ pc = "final" => open_stack = <<>>
    /\ pc \in {"openings", "character"} =>
          \A k \in 1..Len(open_stack) : by_id[open_stack[k]].end > i
    /\ Rendered /\ hist # <<>> => hist[Len(hist)].stack = <<>>
    /\ Rendered => \A S \in PostMergeSpans : Count("open", S.id) = Count("close", S.id)

\* C12 witness: the walk is over, every span was opened, and two of them
\* that cross a third end at len(text)
C12_Witness ==
    /\ pc = "final"
    /\ \E S, T, U \in PostMergeSpans :
          /\ S.id # T.id
          /\ S.end = Len(text) /\ T.end = Len(text)
          /\ U.start < S.start /\ S.start < U.end /\ U.end < S.end
          /\ Count("open", S.id) >= 2

\* the spans of the kinds that merging does not touch
NonMergeable(S) == {sp \in S : sp.type \notin MERGEABLE}

\* C13: once merge_mergeable_spans has been called on the raw spans, its
\* result holds every non-mergeable raw span unchanged (same id, start, end,
\* tags, priority) and no other non-mergeable span.
C13_NonMergeableUnchanged ==
    pc \notin {"call", "merge"} /\ text # <<>> =>
        NonMergeable(PostMergeSpans) = NonMergeable(Range(spans))

\* the opening-order key (start, -length, priority) of S is at most that of T
OpenKeyLeq(S, T) ==
    \/ S.start < T.start
    \/ /\ S.start = T.start
       /\ \/ S.end - S.start > T.end - T.start
          \/ S.end - S.start = T.end - T.start /\ S.priority <= T.priority

\* a stack of distinct span ids, bottom to top in opening order
InOpeningOrder(stack) ==
    \A j, k \in 1..Len(stack) :
        j < k => stack[j] # stack[k] /\ OpenKeyLeq(by_id[stack[j]], by_id[stack[k]])

\* C14: at every point of the walk, between any two emits of a close_until
\* included, the open stack read bottom to top is sorted by opening order:
\* start ascending, then length descending, then priority ascending.
C14_StackInOpeningOrder ==
    Indexed =>
        /\ InOpeningOrder(open_stack)
        /\ \A k \in 1..Len(hist) : InOpeningOrder(hist[k].stack)

\* C14 witness: after a closing step the stack holds two spans that were
\* both popped and reopened
C14_Witness ==
    /\ pc = "openings"
    /\ Len(open_stack) >= 2
    /\ \A k \in 1..Len(open_stack) : Count("open", open_stack[k]) >= 2

\* the spans of kind t handed to merge_mergeable_spans, and those it returns
InputOfKind(t) == {sp \in Range(spans) : sp.type = t}
OutputOfKind(t) == {sp \in PostMergeSpans : sp.type = t}
Covers(sp, p) == sp.start <= p /\ p < sp.end
Contains(O, A) == O.start <= A.start /\ A.end <= O.end

\* C15: for each mergeable kind, a position covered after merging was covered
\* by an input span of the kind or holds whitespace; every input span lies
\* inside exactly one output span; and each output span starts where some
\* input span starts and ends where some input span ends.
C15_MergeAddsOnlyWhitespace ==
    Indexed =>
        \A t \in MERGEABLE :
            /\ \A O \in OutputOfKind(t) : \A p \in 0..(Len(text) - 1) :
                  Covers(O, p) =>
                      \/ \E A \in InputOfKind(t) : Covers(A, p)
                      \/ IsSpaceChar(text[p + 1])
            /\ \A A \in InputOfKind(t) :
                  Cardinality({O \in OutputOfKind(t) : Contains(O, A)}) = 1
            /\ \A O \in OutputOfKind(t) :
                  /\ \E A \in InputOfKind(t) : A.start = O.start
                  /\ \E A \in InputOfKind(t) : A.end = O.end

\* C15 witness: three input spans of one kind became one output span that
\* took in a whitespace position none of them covered and a span lying
\* inside another
C15_Witness ==
    /\ Indexed
    /\ \E t \in MERGEABLE :
          /\ Cardinality(InputOfKind(t)) = 3
          /\ Cardinality(OutputOfKind(t)) = 1
          /\ \E p \in 0..(Len(text) - 1) :
                /\ \A A \in InputOfKind(t) : ~Covers(A, p)
                /\ \E O \in OutputOfKind(t) : Covers(O, p)
          /\ \E A, B \in InputOfKind(t) : A.id # B.id /\ Contains(A, B)

====
